---- MODULE Spec2Model ----
(***************************************************************************)
(* Model of Pricing_Functions.ipynb: the spot-price fetch, the option      *)
(* chain fetch, the enricher, the Black-Scholes pricer and the batch       *)
(* pricing driver, and the notebook cell that runs them in sequence.       *)
(*                                                                         *)
(* Floating-point values are modelled exactly where the code's arithmetic  *)
(* is rational (differences, quotients, the intrinsic value) and as        *)
(* unevaluated symbolic terms where it is transcendental (log, sqrt, exp,  *)
(* the normal CDF).  NaN and the infinities are values of their own and    *)
(* propagate as IEEE-754 arithmetic propagates them.                       *)
(***************************************************************************)
EXTENDS Integers, Sequences, FiniteSets, TLC

(***************************************************************************)
(* Bounds of the model.                                                    *)
(***************************************************************************)
\* longest list of expirations the provider offers (ticker.options)
MaxExpirations == 2
\* number of days the wall clock may advance during a session
MaxDays == 1

(***************************************************************************)
(* Floats.                                                                 *)
(***************************************************************************)
RECURSIVE Gcd(_, _)
Gcd(a, b) == IF b = 0 THEN a ELSE Gcd(b, a % b)

Abs(x) == IF x < 0 THEN -x ELSE x

\* the finite float n/d, in lowest terms with a positive denominator
Fin(n, d) ==
    LET g == Gcd(Abs(n), Abs(d))
        s == IF d < 0 THEN -1 ELSE 1
    IN  [k |-> "fin", n |-> s * (n \div g), d |-> s * (d \div g)]

NaN == [k |-> "nan", n |-> 0, d |-> 0]
PosInf == [k |-> "inf", n |-> 1, d |-> 0]
NegInf == [k |-> "inf", n |-> -1, d |-> 0]
\* Python's None
None == [k |-> "none", n |-> 0, d |-> 0]
Zero == Fin(0, 1)
One == Fin(1, 1)

IsFin(x) == x.k = "fin"
IsNaN(x) == x.k = "nan"
IsInf(x) == x.k = "inf"
IsSym(x) == x.k = "sym"
IsNone(x) == x.k = "none"

\* the sign of a float: 1, -1, 0 for zero; 2 when the value is a symbolic
\* term whose sign is not known
Sign(x) ==
    CASE IsFin(x) -> (IF x.n > 0 THEN 1 ELSE IF x.n < 0 THEN -1 ELSE 0)
      [] IsInf(x) -> x.n
      [] IsSym(x) -> x.sg
      [] OTHER -> 2

\* an unevaluated finite real: op applied to args, of sign sg
Sym(op, args, sg) == [k |-> "sym", op |-> op, args |-> args, sg |-> sg]

MulSign(s, t) == IF s = 0 \/ t = 0 THEN 0 ELSE IF s = 2 \/ t = 2 THEN 2 ELSE s * t

\* x < y, x <= y and x > y on floats; every comparison with NaN is False
FLt(x, y) ==
    CASE IsNaN(x) \/ IsNaN(y) -> FALSE
      [] IsFin(x) /\ IsFin(y) -> x.n * y.d < y.n * x.d
      [] IsInf(x) /\ IsInf(y) -> x.n < y.n
      [] IsInf(x) -> x.n < 0
      [] IsInf(y) -> y.n > 0
      [] OTHER -> FALSE

FLe(x, y) ==
    CASE IsNaN(x) \/ IsNaN(y) -> FALSE
      [] OTHER -> x = y \/ FLt(x, y)

FGt(x, y) == FLt(y, x)

FNeg(x) ==
    CASE IsFin(x) -> Fin(-x.n, x.d)
      [] IsInf(x) -> [x EXCEPT !.n = -x.n]
      [] IsSym(x) -> Sym("neg", <<x>>, MulSign(-1, x.sg))
      [] OTHER -> NaN

FAdd(x, y) ==
    CASE IsNaN(x) \/ IsNaN(y) -> NaN
      [] IsFin(x) /\ IsFin(y) -> Fin(x.n * y.d + y.n * x.d, x.d * y.d)
      [] IsInf(x) /\ IsInf(y) -> IF x.n = y.n THEN x ELSE NaN
      [] IsInf(x) -> x
      [] IsInf(y) -> y
      [] x = Zero -> y
      [] y = Zero -> x
      [] OTHER -> Sym("add", <<x, y>>,
                      IF Sign(x) = Sign(y) THEN Sign(x)
                      ELSE IF Sign(x) = 0 THEN Sign(y)
                      ELSE IF Sign(y) = 0 THEN Sign(x) ELSE 2)

FSub(x, y) ==
    CASE IsNaN(x) \/ IsNaN(y) -> NaN
      [] IsSym(x) /\ y # Zero -> Sym("sub", <<x, y>>,
                      IF Sign(x) = -Sign(y) /\ Sign(x) # 2 THEN Sign(x) ELSE 2)
      [] IsSym(y) /\ ~IsInf(x) -> Sym("sub", <<x, y>>,
                      IF Sign(x) = -Sign(y) /\ Sign(x) # 2 THEN Sign(x) ELSE 2)
      [] OTHER -> FAdd(x, FNeg(y))

FMul(x, y) ==
    CASE IsNaN(x) \/ IsNaN(y) -> NaN
      [] IsFin(x) /\ IsFin(y) -> Fin(x.n * y.n, x.d * y.d)
      [] IsInf(x) \/ IsInf(y) ->
            IF MulSign(Sign(x), Sign(y)) = 0 THEN NaN
            ELSE IF MulSign(Sign(x), Sign(y)) = 2 THEN Sym("mul", <<x, y>>, 2)
            ELSE IF MulSign(Sign(x), Sign(y)) = 1 THEN PosInf ELSE NegInf
      [] x = Zero \/ y = Zero -> Zero
      [] x = One -> y
      [] y = One -> x
      [] OTHER -> Sym("mul", <<x, y>>, MulSign(Sign(x), Sign(y)))

\* IEEE division, as numpy and pandas divide: x/0 is an infinity of the
\* sign of x, 0/0 is NaN, and nothing is raised
FDiv(x, y) ==
    CASE IsNaN(x) \/ IsNaN(y) -> NaN
      [] IsInf(x) /\ IsInf(y) -> NaN
      [] IsInf(y) -> Zero
      [] y = Zero ->
            IF Sign(x) = 0 THEN NaN
            ELSE IF Sign(x) = 2 THEN Sym("div", <<x, y>>, 2)
            ELSE IF Sign(x) = 1 THEN PosInf ELSE NegInf
      [] IsInf(x) ->
            IF Sign(y) = 2 THEN Sym("div", <<x, y>>, 2)
            ELSE IF MulSign(Sign(x), Sign(y)) = 1 THEN PosInf ELSE NegInf
      [] IsFin(x) /\ IsFin(y) -> Fin(x.n * y.d, x.d * y.n)
      [] x = Zero -> Zero
      [] y = One -> x
      [] OTHER -> Sym("div", <<x, y>>, MulSign(Sign(x), Sign(y)))

\* np.log: log(0) = -inf and log of a negative number is NaN (a warning,
\* no exception)
NpLog(x) ==
    CASE IsNaN(x) -> NaN
      [] IsInf(x) -> IF x.n > 0 THEN PosInf ELSE NaN
      [] IsFin(x) ->
            IF x.n < 0 THEN NaN
            ELSE IF x.n = 0 THEN NegInf
            ELSE IF x = One THEN Zero
            ELSE Sym("log", <<x>>, IF x.n > x.d THEN 1 ELSE -1)
      [] OTHER -> Sym("log", <<x>>, 2)

\* np.sqrt on the non-negative arguments the pricer passes
NpSqrt(x) ==
    CASE IsNaN(x) -> NaN
      [] x = Zero \/ x = One -> x
      [] IsInf(x) -> IF x.n > 0 THEN PosInf ELSE NaN
      [] Sign(x) = -1 -> NaN
      [] OTHER -> Sym("sqrt", <<x>>, 1)

NpExp(x) ==
    CASE IsNaN(x) -> NaN
      [] x = Zero -> One
      [] IsInf(x) -> IF x.n > 0 THEN PosInf ELSE Zero
      [] OTHER -> Sym("exp", <<x>>, 1)

\* scipy.stats.norm.cdf
NormCdf(x) ==
    CASE IsNaN(x) -> NaN
      [] IsInf(x) -> IF x.n > 0 THEN One ELSE Zero
      [] x = Zero -> Fin(1, 2)
      [] OTHER -> Sym("cdf", <<x>>, 1)

\* Python's max(0, x): x when x > 0, otherwise the first argument 0
Max0(x) == IF FGt(x, Zero) THEN x ELSE Zero

(***************************************************************************)
(* Dates and timestamps.  A date string "YYYY-MM-DD" is the record         *)
(* [y, m, d]; a Timestamp is [day, frac]: the day's ordinal and whether    *)
(* the time of day is midnight (0) or later (1).                           *)
(***************************************************************************)
Date(y, m, d) == [y |-> y, m |-> m, d |-> d]

\* the number of days from 1970-01-01 to the date (proleptic Gregorian)
Ordinal(date) ==
    LET yy == IF date.m <= 2 THEN date.y - 1 ELSE date.y
        era == yy \div 400
        yoe == yy - era * 400
        mp == (date.m + 9) % 12
        doy == (153 * mp + 2) \div 5 + date.d - 1
        doe == yoe * 365 + yoe \div 4 - yoe \div 100 + doy
    IN  era * 146097 + doe - 719468

Timestamp(day, frac) == [day |-> day, frac |-> frac]

\* pd.to_datetime of a date string: midnight of that date
to_datetime(date) == Timestamp(Ordinal(date), 0)

\* Timestamp.normalize(): the time of day is set to midnight
normalize(ts) == Timestamp(ts.day, 0)

\* (a - b).dt.days: the days component of the Timedelta, rounded down
TimedeltaDays(a, b) == a.day - b.day - (IF a.frac < b.frac THEN 1 ELSE 0)

(***************************************************************************)
(* DataFrames: a set of column names and a sequence of rows, each row a    *)
(* function from the column names to values.                               *)
(***************************************************************************)
DataFrame(columns, rows) == [columns |-> columns, rows |-> rows]

\* pd.DataFrame(): no columns, no rows
EmptyDataFrame == DataFrame({}, <<>>)

\* the value bound to a name that holds no frame (yet)
NoFrame == DataFrame({"<unbound>"}, <<>>)

\* df[c] = vals, vals[i] being the value of row i (the concatenation with
\* the empty sequence makes the rows an explicit sequence)
SetColumn(df, c, vals) ==
    DataFrame(df.columns \cup {c},
              <<>> \o [i \in 1..Len(df.rows) |-> (c :> vals[i]) @@ df.rows[i]])

\* df.drop(columns=[c])
DropColumn(df, c) ==
    DataFrame(df.columns \ {c},
              <<>> \o [i \in 1..Len(df.rows) |->
                          [x \in (DOMAIN df.rows[i]) \ {c} |-> df.rows[i][x]]])

\* pd.concat([a, b], ignore_index=True) on frames of the same columns
Concat2(a, b) == DataFrame(a.columns \cup b.columns, a.rows \o b.rows)

RECURSIVE ConcatAll(_)
\* pd.concat(frames, ignore_index=True)
ConcatAll(frames) ==
    IF Len(frames) = 1 THEN frames[1]
    ELSE Concat2(frames[1], ConcatAll(Tail(frames)))

(***************************************************************************)
(* black_scholes_price                                                     *)
(***************************************************************************)
bs_d1(S, K, T, r, sigma) ==
    FDiv(FAdd(NpLog(FDiv(S, K)),
              FMul(FAdd(r, FMul(Fin(1, 2), FMul(sigma, sigma))), T)),
         FMul(sigma, NpSqrt(T)))

bs_d2(S, K, T, r, sigma) ==
    FSub(bs_d1(S, K, T, r, sigma), FMul(sigma, NpSqrt(T)))

\* the edge-case test made first
EdgeCaseMissesSigma(T, sigma) == FLe(T, Zero)

EdgeCase(T, sigma) == FLe(T, Zero) \/ FLe(sigma, Zero)

\* S is a numpy float64 (get_todays_price returns round() of one), so S / K
\* and S - K follow IEEE arithmetic and raise nothing
black_scholes_price(S, K, T, r, sigma, option_type) ==
    IF EdgeCase(T, sigma)
    THEN IF option_type = "call" THEN Max0(FSub(S, K)) ELSE Max0(FSub(K, S))
    ELSE LET d1 == bs_d1(S, K, T, r, sigma)
             d2 == bs_d2(S, K, T, r, sigma)
             disc == NpExp(FMul(FNeg(r), T))
         IN  IF option_type = "call"
             THEN FSub(FMul(S, NormCdf(d1)), FMul(FMul(K, disc), NormCdf(d2)))
             ELSE FSub(FMul(FMul(K, disc), NormCdf(FNeg(d2))),
                       FMul(S, NormCdf(FNeg(d1))))

(***************************************************************************)
(* get_todays_price.  The provider's answer to ticker.history is           *)
(* [ok, empty, close]: whether the request succeeded, whether the table    *)
(* came back empty, and the last Close.                                    *)
(***************************************************************************)
\* round(price, 2): to the nearest hundredth, ties to the even hundredth
Round2(x) ==
    IF ~IsFin(x) THEN x
    ELSE LET q == (x.n * 100) \div x.d
             rem == (x.n * 100) % x.d
         IN  IF 2 * rem > x.d \/ (2 * rem = x.d /\ q % 2 = 1)
             THEN Fin(q + 1, 100)
             ELSE Fin(q, 100)

get_todays_price(history) ==
    IF ~history.ok THEN None
    ELSE IF history.empty THEN None
    ELSE Round2(history.close)

(***************************************************************************)
(* fetch_full_option_chain.  The provider is [ok, options, chains]: ok     *)
(* tells whether ticker.options answers, options is the list of expiration *)
(* strings and chains[e] is what ticker.option_chain(e) does: [ok, calls,  *)
(* puts], raising when ok is FALSE.                                        *)
(***************************************************************************)
Min(a, b) == IF a < b THEN a ELSE b

\* xs[:n] for n >= 0
Prefix(xs, n) == SubSeq(xs, 1, Min(n, Len(xs)))

ConstColumn(df, v) == [i \in 1..Len(df.rows) |-> v]

\* the body of the try block for one expiration: the labelled calls
\* followed by the labelled puts
LabelAndMergePutsFirst(chain, expiry) ==
    Concat2(SetColumn(SetColumn(chain.puts, "type", ConstColumn(chain.puts, "put")),
                      "expiration", ConstColumn(chain.puts, expiry)),
            SetColumn(SetColumn(chain.calls, "type", ConstColumn(chain.calls, "call")),
                      "expiration", ConstColumn(chain.calls, expiry)))

LabelAndMerge(chain, expiry) ==
    LET calls == SetColumn(SetColumn(chain.calls, "type",
                                     ConstColumn(chain.calls, "call")),
                           "expiration", ConstColumn(chain.calls, expiry))
        puts == SetColumn(SetColumn(chain.puts, "type",
                                    ConstColumn(chain.puts, "put")),
                          "expiration", ConstColumn(chain.puts, expiry))
    IN  Concat2(calls, puts)

RECURSIVE FetchLoop(_, _, _, _)
\* the for loop: all_options and the printed lines after the expirations
\* from position i on have been visited.  The pause between expirations
\* (time.sleep of a non-negative sleep_time) changes nothing but the clock.
FetchLoop(expirations, chains, i, acc) ==
    IF i > Len(expirations) THEN acc
    ELSE LET expiry == expirations[i]
         IN  IF chains[expiry].ok
             THEN FetchLoop(expirations, chains, i + 1,
                    [all_options |-> Append(acc.all_options,
                                            LabelAndMerge(chains[expiry], expiry)),
                     stdout |-> Append(acc.stdout,
                                       [msg |-> "Fetched", expiry |-> expiry])])
             ELSE FetchLoop(expirations, chains, i + 1,
                    [all_options |-> acc.all_options,
                     stdout |-> Append(acc.stdout,
                                       [msg |-> "Failed on", expiry |-> expiry])])

\* the result is [exc, ret, stdout]; ticker.options is read outside the try
\* block, so its failure propagates to the caller
fetch_full_option_chain(provider, max_expirations) ==
    IF ~provider.ok
    THEN [exc |-> "UpstreamError", ret |-> NoFrame, stdout |-> <<>>]
    ELSE LET expirations == Prefix(provider.options, max_expirations)
             done == FetchLoop(expirations, provider.chains, 1,
                               [all_options |-> <<>>, stdout |-> <<>>])
         IN  [exc |-> "none",
              ret |-> IF done.all_options # <<>>
                      THEN ConcatAll(done.all_options)
                      ELSE EmptyDataFrame,
              stdout |-> done.stdout]

(***************************************************************************)
(* enrich_option_data and calculate_bs_prices.  Each works on a store of   *)
(* two objects, the caller's frame ("arg") and the frame df.copy() makes   *)
(* ("new"); the local name df refers to one of them.  The result is        *)
(* [exc, ret, arg]: the exception raised ("none" if none), the frame       *)
(* returned and the caller's frame as the call leaves it.                  *)
(***************************************************************************)
\* what df = df.copy() binds the local name to
NoCopy(df) == "arg"

df_copy(df) == "new"

Raise(exc, store) == [exc |-> exc, ret |-> NoFrame, arg |-> store["arg"]]

Return(store, ref) == [exc |-> "none", ret |-> store[ref], arg |-> store["arg"]]

\* today's date as the enricher takes it
TodayUnnormalized(now) == now

Today(now) == normalize(now)

enrich_option_data(df, underlying_price, now) ==
    LET ref == df_copy(df)
        s0 == [arg |-> df, new |-> df]
    IN  IF "strike" \notin s0[ref].columns THEN Raise("KeyError", s0)
        ELSE IF IsNone(underlying_price) THEN Raise("TypeError", s0)
        ELSE
        LET s1 == [s0 EXCEPT ![ref] = SetColumn(@, "moneyness",
                      [i \in 1..Len(@.rows) |->
                          FDiv(@.rows[i]["strike"], underlying_price)])]
            s2 == [s1 EXCEPT ![ref] = SetColumn(@, "current_date",
                      ConstColumn(@, Today(now)))]
        IN  IF "expiration" \notin s2[ref].columns THEN Raise("KeyError", s2)
            ELSE
            LET s3 == [s2 EXCEPT ![ref] = SetColumn(@, "expiration",
                          [i \in 1..Len(@.rows) |->
                              to_datetime(@.rows[i]["expiration"])])]
                s4 == [s3 EXCEPT ![ref] = SetColumn(@, "days_to_expiration",
                          [i \in 1..Len(@.rows) |->
                              TimedeltaDays(@.rows[i]["expiration"],
                                            @.rows[i]["current_date"])])]
                s5 == [s4 EXCEPT ![ref] = DropColumn(@, "current_date")]
            IN  Return(s5, ref)

\* the default of the parameter r
DefaultRate == Fin(45, 1000)

\* the columns the lambda reads from a row
RowColumns == {"strike", "T", "impliedVolatility", "type"}

\* df["pricing_error"] for one row
PricingError(row) == FSub(row["lastPrice"], row["bs_price"])

\* the lambda applied to one row
PriceRowOwnSpot(row, S, r) ==
    black_scholes_price(row["strike"], row["strike"], row["T"], r,
                        row["impliedVolatility"], row["type"])

PriceRow(row, S, r) ==
    black_scholes_price(S, row["strike"], row["T"], r,
                        row["impliedVolatility"], row["type"])

calculate_bs_prices(df, S, r) ==
    LET ref == df_copy(df)
        s0 == [arg |-> df, new |-> df]
    IN  IF "days_to_expiration" \notin s0[ref].columns THEN Raise("KeyError", s0)
        ELSE
        LET s1 == [s0 EXCEPT ![ref] = SetColumn(@, "T",
                      [i \in 1..Len(@.rows) |->
                          FDiv(Fin(@.rows[i]["days_to_expiration"], 1),
                               Fin(365, 1))])]
        IN  IF Len(s1[ref].rows) > 0 /\ ~(RowColumns \subseteq s1[ref].columns)
            THEN Raise("KeyError", s1)
            ELSE IF Len(s1[ref].rows) > 0 /\ IsNone(S) THEN Raise("TypeError", s1)
            ELSE
            LET s2 == [s1 EXCEPT ![ref] = SetColumn(@, "bs_price",
                          [i \in 1..Len(@.rows) |-> PriceRow(@.rows[i], S, r)])]
            IN  IF "lastPrice" \notin s2[ref].columns THEN Raise("KeyError", s2)
                ELSE
                LET s3 == [s2 EXCEPT ![ref] = SetColumn(@, "pricing_error",
                              [i \in 1..Len(@.rows) |-> PricingError(@.rows[i])])]
                IN  Return(s3, ref)

(***************************************************************************)
(* The inputs the environment can supply.                                  *)
(***************************************************************************)
\* the date on which the session starts
StartDate == Date(2025, 3, 1)

\* the expiration strings the provider may list
Dates == {Date(2025, 2, 28), Date(2025, 3, 2), Date(2025, 3, 31)}

\* ticker.options lists expirations in chronological order
OptionLists ==
    {xs \in UNION {[1..n -> Dates] : n \in 0..MaxExpirations} :
        \A i \in 1..(Len(xs) - 1) : Ordinal(xs[i]) < Ordinal(xs[i + 1])}

BaseColumns == {"contractSymbol", "strike", "lastPrice", "impliedVolatility"}

Quote(symbol, strike, lastPrice, iv) ==
    [contractSymbol |-> symbol, strike |-> strike, lastPrice |-> lastPrice,
     impliedVolatility |-> iv]

\* option_chain(expiry) raises
FailedChain ==
    [ok |-> FALSE, calls |-> DataFrame(BaseColumns, <<>>),
     puts |-> DataFrame(BaseColumns, <<>>)]

\* an expiration with no contract listed
ChainNoContracts ==
    [ok |-> TRUE, calls |-> DataFrame(BaseColumns, <<>>),
     puts |-> DataFrame(BaseColumns, <<>>)]

\* a chain with a missing implied volatility (NaN) and a zero one
ChainQuoted ==
    [ok |-> TRUE,
     calls |-> DataFrame(BaseColumns,
                 <<Quote("C2", Fin(2, 1), Fin(1, 1), NaN),
                   Quote("C1", Fin(1, 1), Fin(3, 2), Fin(1, 2))>>),
     puts |-> DataFrame(BaseColumns, <<Quote("P4", Fin(4, 1), Fin(5, 2), Zero)>>)]

ChainResponses == {FailedChain, ChainNoContracts, ChainQuoted}

Range(xs) == {xs[i] : i \in DOMAIN xs}

Providers ==
    {[ok |-> FALSE, options |-> <<>>, chains |-> <<>>]} \cup
    {[ok |-> TRUE, options |-> xs, chains |-> cs] :
        <<xs, cs>> \in UNION {{xs} \X [Range(xs) -> ChainResponses] : xs \in OptionLists}}

Histories ==
    {[ok |-> FALSE, empty |-> TRUE, close |-> NaN],
     [ok |-> TRUE, empty |-> TRUE, close |-> NaN]} \cup
    {[ok |-> TRUE, empty |-> FALSE, close |-> c] :
        c \in {Fin(-1, 1), Zero, Fin(2, 1), Fin(501, 250)}}

\* the arguments of a direct call of the pricer
PricerSpots == {Fin(-1, 1), Zero, Fin(1, 1), Fin(2, 1)}
PricerStrikes == {Fin(-1, 1), Zero, Fin(1, 1), Fin(2, 1)}
PricerTimes == {Fin(-1, 365), Zero, Fin(30, 365)}
PricerRates == {Fin(-1, 100), Zero, DefaultRate}
PricerSigmas == {Fin(-1, 4), Zero, Fin(1, 4), NaN}

\* the rate passed to the driver: none (the default applies) or a rate
RateArguments == {None, Zero}

(***************************************************************************)
(* The notebook session: the cell that runs the pipeline, or a direct call *)
(* of the pricer.                                                          *)
(***************************************************************************)
VARIABLES pc, clock, S, provider, max_expirations, df, stdout, enriched_df,
          enriched_at, rate, bs_df, exc, rerun_df, rerun_at, pricer_call

vars == <<pc, clock, S, provider, max_expirations, df, stdout, enriched_df,
          enriched_at, rate, bs_df, exc, rerun_df, rerun_at, pricer_call>>

NoCall == [called |-> FALSE]

NoProvider == [ok |-> FALSE, options |-> <<>>, chains |-> <<>>]

Init ==
    /\ pc = "start"
    /\ clock = to_datetime(StartDate)
    /\ S = None
    /\ provider = NoProvider
    /\ max_expirations = 0
    /\ df = NoFrame
    /\ stdout = <<>>
    /\ enriched_df = NoFrame
    /\ enriched_at = clock
    /\ rate = None
    /\ bs_df = NoFrame
    /\ exc = "none"
    /\ rerun_df = NoFrame
    /\ rerun_at = clock
    /\ pricer_call = NoCall

\* the wall clock advances while the session is running
Tick ==
    /\ pc \in {"start", "got_price", "fetched", "enriched", "priced"}
    /\ \/ /\ clock.frac = 0
          /\ clock' = Timestamp(clock.day, 1)
       \/ /\ clock.frac = 1
          /\ clock.day < Ordinal(StartDate) + MaxDays
          /\ clock' = Timestamp(clock.day + 1, 0)
    /\ UNCHANGED <<pc, S, provider, max_expirations, df, stdout, enriched_df,
                   enriched_at, rate, bs_df, exc, rerun_df, rerun_at, pricer_call>>

\* S = get_todays_price(ticker_symbol)
GetPrice ==
    /\ pc = "start"
    /\ \E history \in Histories : S' = get_todays_price(history)
    /\ pc' = "got_price"
    /\ UNCHANGED <<clock, provider, max_expirations, df, stdout, enriched_df,
                   enriched_at, rate, bs_df, exc, rerun_df, rerun_at, pricer_call>>

\* df = fetch_full_option_chain(ticker_symbol, max_expirations=...)
Fetch ==
    /\ pc = "got_price"
    /\ \E p \in Providers, m \in 0..MaxExpirations :
          LET res == fetch_full_option_chain(p, m)
          IN  /\ provider' = p
              /\ max_expirations' = m
              /\ stdout' = res.stdout
              /\ exc' = res.exc
              /\ IF res.exc = "none"
                 THEN df' = res.ret /\ pc' = "fetched"
                 ELSE df' = df /\ pc' = "raised"
    /\ UNCHANGED <<clock, S, enriched_df, enriched_at, rate, bs_df, rerun_df,
                   rerun_at, pricer_call>>

\* enriched_df = enrich_option_data(df, underlying_price=S)
Enrich ==
    /\ pc = "fetched"
    /\ LET res == enrich_option_data(df, S, clock)
       IN  /\ df' = res.arg
           /\ exc' = res.exc
           /\ IF res.exc = "none"
              THEN enriched_df' = res.ret /\ pc' = "enriched"
              ELSE enriched_df' = enriched_df /\ pc' = "raised"
    /\ enriched_at' = clock
    /\ UNCHANGED <<clock, S, provider, max_expirations, stdout, rate, bs_df,
                   rerun_df, rerun_at, pricer_call>>

\* the value of the parameter r: the argument, or the default when the
\* call passes none
RateParameter(arg) == IF IsNone(arg) THEN DefaultRate ELSE arg

\* bs_df = calculate_bs_prices(enriched_df, S), or with a rate passed
Price ==
    /\ pc = "enriched"
    /\ \E arg \in RateArguments :
          LET res == calculate_bs_prices(enriched_df, S, RateParameter(arg))
          IN  /\ rate' = arg
              /\ enriched_df' = res.arg
              /\ exc' = res.exc
              /\ IF res.exc = "none"
                 THEN bs_df' = res.ret /\ pc' = "priced"
                 ELSE bs_df' = bs_df /\ pc' = "raised"
    /\ UNCHANGED <<clock, S, provider, max_expirations, df, stdout,
                   enriched_at, rerun_df, rerun_at, pricer_call>>

\* steps 3 and 4 of the cell run again on the same df and S
Rerun ==
    /\ pc = "priced"
    /\ LET again == enrich_option_data(df, S, clock)
       IN  rerun_df' = calculate_bs_prices(again.ret, S, RateParameter(rate)).ret
    /\ rerun_at' = clock
    /\ pc' = "reran"
    /\ UNCHANGED <<clock, S, provider, max_expirations, df, stdout,
                   enriched_df, enriched_at, rate, bs_df, exc, pricer_call>>

\* black_scholes_price called on its own; the function has no raise
\* statement and its arithmetic raises nothing, so every call returns
CallPricer ==
    /\ pc = "start"
    /\ \E s \in PricerSpots, k \in PricerStrikes, t \in PricerTimes,
          r \in PricerRates, sigma \in PricerSigmas,
          option_type \in {"call", "put"} :
          pricer_call' = [called |-> TRUE, S |-> s, K |-> k, T |-> t, r |-> r,
                          sigma |-> sigma, option_type |-> option_type,
                          raised |-> "none",
                          result |-> black_scholes_price(s, k, t, r, sigma,
                                                         option_type)]
    /\ pc' = "pricer_called"
    /\ UNCHANGED <<clock, S, provider, max_expirations, df, stdout,
                   enriched_df, enriched_at, rate, bs_df, exc, rerun_df, rerun_at>>

Next == Tick \/ GetPrice \/ Fetch \/ Enrich \/ Price \/ Rerun \/ CallPricer

Spec == Init /\ [][Next]_vars

(***************************************************************************)
(* Vocabulary of the properties.                                           *)
(***************************************************************************)
Positive(x) == IsFin(x) /\ x.n > 0

NonPositive(x) == IsFin(x) /\ x.n <= 0

\* a - b for finite a and b, and max(0, a - b)
Difference(a, b) == Fin(a.n * b.d - b.n * a.d, a.d * b.d)

Intrinsic(a, b) == IF a.n * b.d > b.n * a.d THEN Difference(a, b) ELSE Zero

\* fetch_full_option_chain has returned to the cell
FetchReturned ==
    \/ pc \in {"fetched", "enriched", "priced", "reran"}
    \/ pc = "raised" /\ exc # "UpstreamError"

Rows(frame) == 1..Len(frame.rows)

\* row j of the output carries every field of row i of the input unchanged,
\* except the fields named in changed
Carries(out, j, inp, i, changed) ==
    \A c \in (DOMAIN inp.rows[i]) \ changed :
        c \in DOMAIN out.rows[j] /\ out.rows[j][c] = inp.rows[i][c]

(***************************************************************************)
(* C1                                                                      *)
(***************************************************************************)
\* C1: for S > 0 and K > 0, any r, and T <= 0 or sigma <= 0, the pricer
\* returns exactly the intrinsic value, max(0, S-K) for a call and
\* max(0, K-S) for a put, whatever r and the sign of T are.
C1_IntrinsicAtEdge ==
    (/\ pricer_call.called
     /\ Positive(pricer_call.S) /\ Positive(pricer_call.K)
     /\ NonPositive(pricer_call.T) \/ NonPositive(pricer_call.sigma))
    => /\ pricer_call.raised = "none"
       /\ pricer_call.result =
            IF pricer_call.option_type = "call"
            THEN Intrinsic(pricer_call.S, pricer_call.K)
            ELSE Intrinsic(pricer_call.K, pricer_call.S)

\* a zero-volatility call with time left and a non-zero rate, in the money
C1_Witness ==
    /\ pricer_call.called
    /\ pricer_call.S = Fin(2, 1) /\ pricer_call.K = Fin(1, 1)
    /\ pricer_call.T = Fin(30, 365) /\ pricer_call.sigma = Zero
    /\ pricer_call.r = DefaultRate /\ pricer_call.option_type = "call"
    /\ pricer_call.result = Fin(1, 1)

(***************************************************************************)
(* C2                                                                      *)
(***************************************************************************)
\* C2: a record whose impliedVolatility is missing does not abort the batch,
\* and it is reported as unpriced (left out of the priced output, or marked)
\* rather than given a theoretical price like a priced record.
C2_MissingVolatilityReported ==
    /\ (pc = "raised" /\ exc # "UpstreamError" /\ Positive(S))
          => \A i \in Rows(df) : ~IsNaN(df.rows[i]["impliedVolatility"])
    /\ (pc = "priced" /\ Positive(S)) =>
          \A i \in Rows(enriched_df) :
              IsNaN(enriched_df.rows[i]["impliedVolatility"]) =>
                  \A j \in Rows(bs_df) :
                      (/\ bs_df.rows[j]["contractSymbol"] =
                            enriched_df.rows[i]["contractSymbol"]
                       /\ bs_df.rows[j]["expiration"] =
                            enriched_df.rows[i]["expiration"])
                      => IsNaN(bs_df.rows[j]["bs_price"])

(***************************************************************************)
(* C3                                                                      *)
(***************************************************************************)
\* C3: the pricer fails (InvalidInput) whenever S <= 0 or K <= 0, and never
\* returns a price for a non-positive spot or strike.
C3_NonPositiveRejected ==
    (pricer_call.called
        /\ (NonPositive(pricer_call.S) \/ NonPositive(pricer_call.K)))
    => pricer_call.raised # "none"

(***************************************************************************)
(* C4                                                                      *)
(***************************************************************************)
\* C4: the enricher fails when underlyingPrice is not strictly positive or is
\* absent; it never returns enriched records in either case.
C4_SpotValidated ==
    pc \in {"enriched", "priced", "reran"} => Positive(S)

(***************************************************************************)
(* C5                                                                      *)
(***************************************************************************)
\* C5: on an empty chain, as the fetch returns when there is no expiration
\* or every expiration fails, the enricher and then the driver complete
\* without error (and give an empty output).
C5_EmptyChainCompletes ==
    (FetchReturned /\ Len(df.rows) = 0 /\ Positive(S)) =>
        /\ pc # "raised"
        /\ pc \in {"priced", "reran"} => Len(bs_df.rows) = 0

(***************************************************************************)
(* C6                                                                      *)
(***************************************************************************)
\* C6: running the enricher and the driver again on the same raw records and
\* the same underlying price gives the same output, whatever the clock shows
\* when the run happens.
C6_RerunIdentical ==
    (pc = "reran" /\ Positive(S)) => rerun_df = bs_df

(***************************************************************************)
(* C7                                                                      *)
(***************************************************************************)
\* C7: neither the enricher nor the driver changes the frame it is given:
\* the caller's frame is the same after the call as before it, and none of
\* the added columns appears on it.
C7_InputsNotMutated ==
    [][/\ pc = "fetched" /\ pc' # "fetched" =>
            /\ df' = df
            /\ df'.columns \cap {"moneyness", "days_to_expiration"} = {}
       /\ pc = "enriched" /\ pc' # "enriched" =>
            /\ enriched_df' = enriched_df
            /\ enriched_df'.columns \cap {"T", "bs_price", "pricing_error"} = {}
       /\ pc = "priced" /\ pc' # "priced" =>
            /\ df' = df
            /\ enriched_df' = enriched_df]_vars

\* both calls have run on a batch that is not empty
C7_Witness ==
    /\ pc = "priced"
    /\ Len(df.rows) = 6
    /\ "moneyness" \in enriched_df.columns /\ "moneyness" \notin df.columns
    /\ "bs_price" \in bs_df.columns /\ "bs_price" \notin enriched_df.columns
    /\ \E i \in Rows(df) :
          df.rows[i]["expiration"] # enriched_df.rows[i]["expiration"]

(***************************************************************************)
(* C8                                                                      *)
(***************************************************************************)
\* C8: the driver returns one record per input record, in the input's order,
\* whose theoretical price is the pricer's result for the batch's spot, the
\* record's strike, T = days_to_expiration / 365, the rate given (0.045 when
\* none is), the record's implied volatility and kind, and whose pricing
\* error is the record's market price minus that theoretical price.
C8_DriverPerRecord ==
    pc = "priced" =>
        /\ exc = "none"
        /\ Len(bs_df.rows) = Len(enriched_df.rows)
        /\ \A i \in Rows(enriched_df) :
              LET inp == enriched_df.rows[i]
                  out == bs_df.rows[i]
                  theoretical ==
                      black_scholes_price(S, inp["strike"],
                          Fin(inp["days_to_expiration"], 365),
                          IF rate = None THEN Fin(9, 200) ELSE rate,
                          inp["impliedVolatility"], inp["type"])
              IN  /\ Carries(bs_df, i, enriched_df, i, {})
                  /\ out["bs_price"] = theoretical
                  /\ out["pricing_error"] =
                        IF IsFin(theoretical)
                        THEN Difference(inp["lastPrice"], theoretical)
                        ELSE IF IsNaN(theoretical) THEN NaN
                        ELSE [out["pricing_error"] EXCEPT
                                 !.op = "sub",
                                 !.args = <<inp["lastPrice"], theoretical>>]

\* a batch of six records priced with the default rate: closed-form prices,
\* intrinsic values and a NaN side by side
C8_Witness ==
    /\ pc = "priced"
    /\ rate = None
    /\ S = Fin(2, 1)
    /\ Len(bs_df.rows) = 6
    /\ \E i \in Rows(bs_df) : IsSym(bs_df.rows[i]["bs_price"])
    /\ \E i \in Rows(bs_df) :
          /\ bs_df.rows[i]["bs_price"] = Fin(1, 1)
          /\ bs_df.rows[i]["pricing_error"] = Fin(1, 2)
    /\ \E i \in Rows(bs_df) : IsNaN(bs_df.rows[i]["bs_price"])

(***************************************************************************)
(* C9                                                                      *)
(***************************************************************************)
\* C9: the enricher returns one record per input record, with moneyness =
\* strike / underlyingPrice and days_to_expiration = the expiration date
\* minus the date of the call, in whole calendar days, the same date for
\* every record; zero and negative day counts are kept.
C9_EnrichedFields ==
    pc = "enriched" =>
        /\ Len(enriched_df.rows) = Len(df.rows)
        /\ \A i \in Rows(df) :
              LET inp == df.rows[i]
                  out == enriched_df.rows[i]
              IN  /\ Carries(enriched_df, i, df, i, {"expiration"})
                  /\ out["days_to_expiration"] =
                        Ordinal(inp["expiration"]) - enriched_at.day
                  /\ (IsFin(S) /\ S.n # 0) =>
                        /\ IsFin(out["moneyness"])
                        /\ out["moneyness"].n * S.n * inp["strike"].d =
                              inp["strike"].n * S.d * out["moneyness"].d

\* enriched after midnight on 2025-03-02: one expiration is two days past,
\* one is today
C9_Witness ==
    /\ pc = "enriched"
    /\ enriched_at = Timestamp(Ordinal(Date(2025, 3, 2)), 1)
    /\ S = Fin(2, 1)
    /\ Len(enriched_df.rows) = 6
    /\ enriched_df.rows[1]["days_to_expiration"] = -2
    /\ enriched_df.rows[4]["days_to_expiration"] = 0
    /\ enriched_df.rows[2]["moneyness"] = Fin(1, 2)

(***************************************************************************)
(* C10                                                                     *)
(***************************************************************************)
\* the rows of one table, labelled with a type and an expiration
Labelled(frame, type, expiry) ==
    [i \in 1..Len(frame.rows) |->
        [c \in BaseColumns \cup {"type", "expiration"} |->
            IF c = "type" THEN type
            ELSE IF c = "expiration" THEN expiry
            ELSE frame.rows[i][c]]]

RECURSIVE ContractsOf(_)
\* the contracts of the given expirations: calls before puts, expiration
\* after expiration
ContractsOf(expirations) ==
    IF expirations = <<>> THEN <<>>
    ELSE Labelled(provider.chains[Head(expirations)].calls, "call",
                  Head(expirations))
         \o Labelled(provider.chains[Head(expirations)].puts, "put",
                     Head(expirations))
         \o ContractsOf(Tail(expirations))

\* the expirations the fetch is to visit, and those among them that succeed
Visited ==
    [i \in 1..(IF max_expirations < Len(provider.options)
               THEN max_expirations ELSE Len(provider.options)) |->
        provider.options[i]]

Succeeds(expiry) == provider.chains[expiry].ok

\* C10: the fetch visits at most the first max_expirations expirations, in
\* order; a failing expiration does not abort the loop and returns no error;
\* the result holds exactly the contracts of the expirations that succeeded,
\* in expiration order, calls before puts, each labelled with its type and
\* expiration, and is an empty table when none succeeded.
C10_FetchResult ==
    (pc # "start" /\ pc # "got_price" /\ pc # "pricer_called" /\ provider.ok) =>
        /\ FetchReturned
        /\ df.rows = ContractsOf(SelectSeq(Visited, Succeeds))
        /\ SelectSeq(Visited, Succeeds) = <<>> => df = EmptyDataFrame
        /\ Len(stdout) = Len(Visited)
        /\ \A i \in 1..Len(stdout) :
              /\ stdout[i].expiry = Visited[i]
              /\ stdout[i].msg = "Failed on" <=> ~Succeeds(Visited[i])

\* two expirations visited, the first fails and the second gives contracts
C10_Witness ==
    /\ pc = "fetched"
    /\ max_expirations = 2 /\ Len(provider.options) = 2
    /\ ~Succeeds(provider.options[1])
    /\ Succeeds(provider.options[2])
    /\ Len(df.rows) = 3
    /\ df.rows[1]["type"] = "call" /\ df.rows[3]["type"] = "put"
    /\ df.rows[1]["expiration"] = provider.options[2]

====
